---- MODULE Spec2Model ----
(***************************************************************************)
(* Interdependent scheduling games (isg.py): the random instance generator *)
(* gen_instance, the MIP formulation model_isg, and the optimisation of    *)
(* the formulated model as the main block runs it.                         *)
(*                                                                         *)
(* Names.  The task "P<i>_T<j>" is the pair <<i, j>>, the player "P<i>" is *)
(* the number i, and the time step "ts_<i>" is the number i; the string    *)
(* formats of the source are injective, and so are these encodings.        *)
(* A decision variable of the MIP is <<kind, task, time step>> with kind   *)
(* "s" (scheduled_times) or "a" (active_times).                            *)
(***************************************************************************)
EXTENDS Integers, Sequences, FiniteSets, TLC

VARIABLES
  pc,               \* position in gen_instance / model_isg / the solve
  num_players,      \* gen_instance argument
  num_tasks,        \* gen_instance argument
  uniform,          \* gen_instance argument
  time_steps,       \* list of time step labels
  tasks,            \* player -> list of that player's tasks (a sequence, in insertion order)
  rewards,          \* task -> reward
  edges,            \* list of <<predecessor, successor>>
  pop_list,         \* gen_instance: the shuffled pool
  t0,               \* gen_instance: the task popped by the current iteration
  r,                \* gen_instance: the count drawn by the current iteration
  iters,            \* gen_instance: iterations of the while loop run so far
  varlist,          \* model_isg: the variables of the model m, in creation order
  scheduled_times,  \* model_isg: the dict scheduled_times, (task, time step) -> column
  active_times,     \* model_isg: the dict active_times, (task, time step) -> column
  constrs,          \* model_isg: the constraints of the model m, in creation order
  objective,        \* model_isg: the objective's terms, <<column, coefficient>>
  err,              \* the exception that ended model_isg, or "none"
  path,             \* solve: values given to the first Len(path) columns
  best,             \* solve: best objective value of a feasible assignment so far, -1 if none
  status            \* solve: "loaded", "optimal" or "infeasible"

vars == <<pc, num_players, num_tasks, uniform, time_steps, tasks, rewards, edges,
          pop_list, t0, r, iters, varlist, scheduled_times, active_times,
          constrs, objective, err, path, best, status>>

genVars == <<num_players, num_tasks, uniform, pop_list, t0, r, iters>>
isgVars == <<varlist, scheduled_times, active_times, constrs, objective, err>>
solveVars == <<path, best, status>>

(***************************************************************************)
(* Bounds of the model.                                                    *)
(***************************************************************************)
MaxTasks == 2     \* tasks per player, and time steps
MaxPool == 4      \* tasks of an instance, all players together
MaxPlayers == 2   \* players of an instance handed to model_isg directly

(***************************************************************************)
(* Constants of the program.                                               *)
(***************************************************************************)
RewardMin == 50
RewardMax == 100
MaxDraw == 5
CoinMax == 3
UniformReward == 1

NoTask == <<0, 0>>

(***************************************************************************)
(* Sequence helpers.                                                       *)
(***************************************************************************)
Range(s) == {s[i] : i \in 1..Len(s)}

RECURSIVE Flatten(_)
Flatten(ss) == IF Len(ss) = 0 THEN <<>> ELSE Head(ss) \o Flatten(Tail(ss))

RECURSIVE SumSeq(_)
SumSeq(s) == IF Len(s) = 0 THEN 0 ELSE Head(s) + SumSeq(Tail(s))

Max(a, b) == IF a >= b THEN a ELSE b

\* range(1, n+1)
Range1(n) == [i \in 1..Max(n, 0) |-> i]

(***************************************************************************)
(* gen_instance                                                            *)
(***************************************************************************)
\* time_steps = ['ts_'+str(i) for i in range(1, num_tasks+1)]
GenTimeSteps(nt) == Range1(nt)

\* tasks["P"+str(i)] = ["P"+str(i)+"_T"+str(j) for j in range(1,num_tasks+1)]
GenTasks(np, nt) == [i \in 1..Max(np, 0) |-> [j \in 1..Max(nt, 0) |-> <<i, j>>]]

\* all_tasks = list(itertools.chain.from_iterable(list(tasks.values())))
AllTasks(tk) == Flatten(tk)

\* Position of v in the sequence s (0 if absent).
Pos(s, v) == IF \E i \in 1..Len(s) : s[i] = v
               THEN CHOOSE i \in 1..Len(s) : s[i] = v ELSE 0

\* lines 121-126: rewards[i] = 1 when uniform, else random.randint(50,100).
\* Of the random maps the model takes those that draw one end of the range
\* for the tasks at odd positions and the upper end for the others.
RewardMaps(all, u) ==
  IF u THEN {[v \in Range(all) |-> UniformReward]}
  ELSE {[v \in Range(all) |-> IF Pos(all, v) % 2 = 1 THEN odd ELSE RewardMax]
          : odd \in {RewardMin, RewardMax}}

\* random.shuffle(pop_list): any ordering of the pool
Shuffles(s) ==
  {p \in [1..Len(s) -> Range(s)] : \A i, j \in 1..Len(s) : p[i] = p[j] => i = j}

\* while len(pop_list) > 1
\* (faulty variant: the loop also runs on a pool of one task)
LoopCondBug(pool) == Len(pool) > 0
LoopCond(pool) == Len(pool) > 1

\* if len(pop_list) > r+1, pop_list being the pool after the pop
\* (faulty variant: the guard is off by one)
PoolGuardBug(rest, i) == Len(rest) > i
PoolGuard(rest, i) == Len(rest) > i + 1

\* if random.randint(0,3) > 1
CoinSuccess(c) == c > 1

\* pop_list[r], pop_list being the pool after the pop (0-based r)
\* (faulty variant: the index is taken in the pool before the pop)
EdgeTargetBug(pool, rest, i) == pool[i + 1]
EdgeTarget(pool, rest, i) == rest[i + 1]

\* One iteration of the while loop on the pool `pool`: every outcome of the
\* draw of the count and of the coins, as [r |-> count, added |-> edges appended].
IterOutcomes(pool) ==
  LET head == Head(pool)
      rest == Tail(pool)
  IN  UNION { LET elig == {i \in 0..(rr - 1) : PoolGuard(rest, i)}
              IN  { LET Hit(i) == i \in elig /\ CoinSuccess(coins[i])
                        offs == SelectSeq([k \in 1..rr |-> k - 1], Hit)
                    IN  [r |-> rr,
                         added |-> [k \in 1..Len(offs) |->
                                      <<head, EdgeTarget(pool, rest, offs[k])>>]]
                    : coins \in [elig -> 0..CoinMax] }
            : rr \in 1..MaxDraw }

\* Every edge list the while loop can return when it starts on the pool `pool`.
RECURSIVE GenEdgeLists(_)
GenEdgeLists(pool) ==
  IF LoopCond(pool)
    THEN {o.added \o tl : o \in IterOutcomes(pool), tl \in GenEdgeLists(Tail(pool))}
    ELSE {<<>>}

GenInit ==
  /\ pc = "gen_call"
  /\ num_players \in (0 - 1)..MaxPool
  /\ num_tasks \in (0 - 1)..MaxTasks
  /\ (num_players >= 1 /\ num_tasks >= 1) => num_players * num_tasks <= MaxPool
  /\ uniform \in BOOLEAN
  /\ time_steps = <<>>
  /\ tasks = <<>>
  /\ rewards = <<>>
  /\ edges = <<>>
  /\ pop_list = <<>>
  /\ t0 = NoTask
  /\ r = 0
  /\ iters = 0
  /\ varlist = <<>>
  /\ scheduled_times = <<>>
  /\ active_times = <<>>
  /\ constrs = <<>>
  /\ objective = <<>>
  /\ err = "none"
  /\ path = <<>>
  /\ best = 0 - 1
  /\ status = "loaded"

\* lines 110-126: the time steps, the tasks and the rewards
GenBuild ==
  /\ pc = "gen_call"
  /\ time_steps' = GenTimeSteps(num_tasks)
  /\ tasks' = GenTasks(num_players, num_tasks)
  /\ rewards' \in RewardMaps(AllTasks(tasks'), uniform)
  /\ pc' = "gen_built"
  /\ UNCHANGED <<edges, genVars, isgVars, solveVars>>

\* lines 140-142: edges = [], the pool is a shuffled copy of all_tasks
GenShuffle ==
  /\ pc = "gen_built"
  /\ edges' = <<>>
  /\ pop_list' \in Shuffles(AllTasks(tasks))
  /\ pc' = "gen_loop"
  /\ UNCHANGED <<num_players, num_tasks, uniform, time_steps, tasks, rewards,
                 t0, r, iters, isgVars, solveVars>>

\* lines 145-151: one iteration of the while loop
GenLoopIter ==
  /\ pc = "gen_loop"
  /\ LoopCond(pop_list)
  /\ \E o \in IterOutcomes(pop_list) :
       /\ t0' = Head(pop_list)
       /\ pop_list' = Tail(pop_list)
       /\ r' = o.r
       /\ edges' = edges \o o.added
  /\ iters' = iters + 1
  /\ UNCHANGED <<pc, num_players, num_tasks, uniform, time_steps, tasks, rewards,
                 isgVars, solveVars>>

\* line 155: the loop condition fails, the instance is returned
GenReturn ==
  /\ pc = "gen_loop"
  /\ ~LoopCond(pop_list)
  /\ pc' = "gen_returned"
  /\ UNCHANGED <<num_players, num_tasks, uniform, time_steps, tasks, rewards, edges,
                 pop_list, t0, r, iters, isgVars, solveVars>>

GenNext == GenBuild \/ GenShuffle \/ GenLoopIter \/ GenReturn

SpecGen == GenInit /\ [][GenNext]_vars

(***************************************************************************)
(* model_isg                                                               *)
(*                                                                         *)
(* m.addVar returns the new variable, which the model holds at the next    *)
(* column; the dicts scheduled_times and active_times map (task, time      *)
(* step) to that column.  A constraint is a linear (in)equality over       *)
(* columns: sum(pos) - sum(neg) `sense` rhs.                               *)
(***************************************************************************)
\* itertools.product(all_tasks, time_steps), as a list
Product(all, ts) ==
  [k \in 1..(Len(all) * Len(ts)) |->
     <<all[((k - 1) \div Len(ts)) + 1], ts[((k - 1) % Len(ts)) + 1]>>]

\* lines 210-212: the names of the variables created, in creation order
\* (faulty variant: the task list is walked twice)
CreatedVarsBug(all, ts) ==
  LET pr == Product(all \o all, ts)
  IN  [k \in 1..(2 * Len(pr)) |->
         IF k % 2 = 1 THEN <<"s", pr[(k + 1) \div 2][1], pr[(k + 1) \div 2][2]>>
                      ELSE <<"a", pr[k \div 2][1], pr[k \div 2][2]>>]
CreatedVars(all, ts) ==
  LET pr == Product(all, ts)
  IN  [k \in 1..(2 * Len(pr)) |->
         IF k % 2 = 1 THEN <<"s", pr[(k + 1) \div 2][1], pr[(k + 1) \div 2][2]>>
                      ELSE <<"a", pr[k \div 2][1], pr[k \div 2][2]>>]

\* The dict filled by the assignments d[v,t] = m.addVar(...) of kind `kind`:
\* a key holds the column of the last variable assigned to it.
VarDict(vl, kind) ==
  LET cols == {k \in 1..Len(vl) : vl[k][1] = kind}
  IN  [key \in {<<vl[k][2], vl[k][3]>> : k \in cols} |->
         CHOOSE k \in cols : /\ <<vl[k][2], vl[k][3]>> = key
                             /\ \A l \in cols : <<vl[l][2], vl[l][3]>> = key => l <= k]

Constr(kind, pos, neg, sense, rhs) ==
  [kind |-> kind, pos |-> pos, neg |-> neg, sense |-> sense, rhs |-> rhs]

\* lines 217-218: every task is scheduled once
OnceConstrs(all, ts, sch) ==
  [k \in 1..Len(all) |->
     Constr("st", [i \in 1..Len(ts) |-> sch[<<all[k], ts[i]>>]], <<>>, "==", 1)]

\* lines 221-223: one task per player and time step
\* (faulty variant: the family is left out)
PlayerConstrsBug(tk, ts, sch) == <<>>
PlayerConstrs(tk, ts, sch) ==
  [k \in 1..(Len(tk) * Len(ts)) |->
     LET p == ((k - 1) \div Len(ts)) + 1
         t == ts[((k - 1) % Len(ts)) + 1]
     IN  Constr("pl", [j \in 1..Len(tk[p]) |-> sch[<<tk[p][j], t>>]], <<>>, "==", 1)]

\* line 228: range(i+1), the number of time steps summed for the 0-based index i
\* (faulty variant: every time step is summed)
LinkRangeBug(i, n) == n
LinkRange(i, n) == i + 1

\* lines 226-228: active times are linked to scheduled times
LinkConstrs(all, ts, sch, act) ==
  [k \in 1..(Len(all) * Len(ts)) |->
     LET v == all[((k - 1) \div Len(ts)) + 1]
         i == (k - 1) % Len(ts)
     IN  Constr("act", [j \in 1..LinkRange(i, Len(ts)) |-> sch[<<v, ts[j]>>]],
                <<act[<<v, ts[i + 1]>>]>>, ">=", 0)]

\* lines 231-233: active_times[e[1], t] <= active_times[e[0], t], for the first n edges
\* (faulty variant: the predecessor must be strictly more active)
EdgeConstrsBug(el, ts, act, n) ==
  [k \in 1..(n * Len(ts)) |->
     LET e == el[((k - 1) \div Len(ts)) + 1]
         t == ts[((k - 1) % Len(ts)) + 1]
     IN  Constr("edge", <<act[<<e[1], t>>]>>, <<act[<<e[2], t>>]>>, ">=", 1)]
EdgeConstrs(el, ts, act, n) ==
  [k \in 1..(n * Len(ts)) |->
     LET e == el[((k - 1) \div Len(ts)) + 1]
         t == ts[((k - 1) % Len(ts)) + 1]
     IN  Constr("edge", <<act[<<e[1], t>>]>>, <<act[<<e[2], t>>]>>, ">=", 0)]

\* The edges whose constraint reads a key that active_times does not hold.
BadEdges(el, ts, act) ==
  {k \in 1..Len(el) : \E i \in 1..Len(ts) :
     <<el[k][2], ts[i]>> \notin DOMAIN act \/ <<el[k][1], ts[i]>> \notin DOMAIN act}

Min(S) == CHOOSE x \in S : \A y \in S : x <= y

\* line 236: the objective's terms, <<column, coefficient>>
ObjectiveTerms(all, ts, act, rw) ==
  LET pr == Product(all, ts)
  IN  [k \in 1..Len(pr) |-> <<act[pr[k]], rw[pr[k][1]]>>]

\* The instances handed to model_isg: any number of time steps, any number of
\* tasks per player, either kind of reward, and over the tasks and one name
\* that is no task: no edge, any one edge (self-loops included), or any edge
\* followed by its reverse (a cycle).
EdgeLists(nodes) ==
  {<<>>} \cup {<<e>> : e \in nodes \X nodes}
         \cup {<<e, <<e[2], e[1]>>>> : e \in nodes \X nodes}

TaskCounts ==
  UNION {{c \in [1..p -> 0..MaxTasks] : SumSeq(c) <= MaxPool} : p \in 0..MaxPlayers}

IsgInit ==
  /\ pc = "isg_call"
  /\ \E n \in 0..MaxTasks : time_steps = Range1(n)
  /\ \E c \in TaskCounts : tasks = [i \in 1..Len(c) |-> [j \in 1..c[i] |-> <<i, j>>]]
  /\ \E u \in BOOLEAN : rewards \in RewardMaps(AllTasks(tasks), u)
  /\ edges \in EdgeLists(Range(AllTasks(tasks)) \cup {NoTask})
  /\ num_players = 0
  /\ num_tasks = 0
  /\ uniform = FALSE
  /\ pop_list = <<>>
  /\ t0 = NoTask
  /\ r = 0
  /\ iters = 0
  /\ varlist = <<>>
  /\ scheduled_times = <<>>
  /\ active_times = <<>>
  /\ constrs = <<>>
  /\ objective = <<>>
  /\ err = "none"
  /\ path = <<>>
  /\ best = 0 - 1
  /\ status = "loaded"

instVars == <<time_steps, tasks, rewards, edges>>

\* lines 203-214: the model and its variables
IsgAddVars ==
  /\ pc = "isg_call"
  /\ varlist' = CreatedVars(AllTasks(tasks), time_steps)
  /\ scheduled_times' = VarDict(varlist', "s")
  /\ active_times' = VarDict(varlist', "a")
  /\ pc' = "isg_vars"
  /\ UNCHANGED <<instVars, genVars, constrs, objective, err, solveVars>>

\* lines 216-228: the three families of scheduling constraints.  The name of
\* a constraint of the first family reads the loop variable t of line 210,
\* which is unbound when that loop ran no iteration.
IsgAddConstrs ==
  /\ pc = "isg_vars"
  /\ LET all == AllTasks(tasks)
     IN  IF Len(all) > 0 /\ Len(Product(all, time_steps)) = 0
           THEN /\ err' = "UnboundLocalError"
                /\ pc' = "isg_error"
                /\ UNCHANGED constrs
           ELSE /\ constrs' = OnceConstrs(all, time_steps, scheduled_times)
                                \o PlayerConstrs(tasks, time_steps, scheduled_times)
                                \o LinkConstrs(all, time_steps, scheduled_times, active_times)
                /\ pc' = "isg_constrs"
                /\ UNCHANGED err
  /\ UNCHANGED <<instVars, genVars, varlist, scheduled_times, active_times,
                 objective, solveVars>>

\* lines 231-233: the edge constraints; the first edge that names a key
\* active_times does not hold raises KeyError
IsgAddEdges ==
  /\ pc = "isg_constrs"
  /\ LET bad == BadEdges(edges, time_steps, active_times)
     IN  IF bad # {}
           THEN /\ constrs' = constrs \o EdgeConstrs(edges, time_steps, active_times,
                                                     Min(bad) - 1)
                /\ err' = "KeyError"
                /\ pc' = "isg_error"
           ELSE /\ constrs' = constrs \o EdgeConstrs(edges, time_steps, active_times,
                                                     Len(edges))
                /\ pc' = "isg_edges"
                /\ UNCHANGED err
  /\ UNCHANGED <<instVars, genVars, varlist, scheduled_times, active_times,
                 objective, solveVars>>

\* lines 236-239: the objective; the model is returned
IsgSetObjective ==
  /\ pc = "isg_edges"
  /\ objective' = ObjectiveTerms(AllTasks(tasks), time_steps, active_times, rewards)
  /\ pc' = "isg_returned"
  /\ UNCHANGED <<instVars, genVars, varlist, scheduled_times, active_times,
                 constrs, err, solveVars>>

(***************************************************************************)
(* model.optimize(): the solver's contract is to report the best objective *)
(* value over the 0/1 assignments that satisfy every constraint, or that   *)
(* there is none.  It is modelled as a depth-first enumeration of the      *)
(* assignments, column by column, that abandons a partial assignment only  *)
(* when some constraint cannot hold whatever the undecided columns take.   *)
(***************************************************************************)
\* Value of the columns cols under the partial assignment pth, an undecided
\* column counting as `undecided`.
SumCols(cols, pth, undecided) ==
  SumSeq([i \in 1..Len(cols) |-> IF cols[i] <= Len(pth) THEN pth[cols[i]] ELSE undecided])

\* Least and greatest value the left-hand side can take in an extension of pth.
LhsMin(c, pth) == SumCols(c.pos, pth, 0) - SumCols(c.neg, pth, 1)
LhsMax(c, pth) == SumCols(c.pos, pth, 1) - SumCols(c.neg, pth, 0)

CanHold(c, pth) ==
  IF c.sense = "==" THEN LhsMin(c, pth) <= c.rhs /\ c.rhs <= LhsMax(c, pth)
                    ELSE LhsMax(c, pth) >= c.rhs

\* The constraint under a complete assignment.
Holds(c, pth) ==
  IF c.sense = "==" THEN SumCols(c.pos, pth, 0) - SumCols(c.neg, pth, 0) = c.rhs
                    ELSE SumCols(c.pos, pth, 0) - SumCols(c.neg, pth, 0) >= c.rhs

Consistent(pth) == \A k \in 1..Len(constrs) : CanHold(constrs[k], pth)

Complete(pth) == Len(pth) = Len(varlist)

ObjVal(pth) ==
  SumSeq([k \in 1..Len(objective) |-> pth[objective[k][1]] * objective[k][2]])

\* The next assignment in the enumeration after pth and everything below it.
RECURSIVE Advance(_)
Advance(pth) ==
  IF Len(pth) = 0 THEN <<>>
  ELSE IF pth[Len(pth)] = 0 THEN SubSeq(pth, 1, Len(pth) - 1) \o <<1>>
  ELSE Advance(SubSeq(pth, 1, Len(pth) - 1))

\* line 293: model.optimize() starts
Optimize ==
  /\ pc = "isg_returned"
  /\ pc' = "solve"
  /\ path' = <<>>
  /\ best' = 0 - 1
  /\ status' = "loaded"
  /\ UNCHANGED <<instVars, genVars, isgVars>>

\* line 293: one step of the enumeration
SolveStep ==
  /\ pc = "solve"
  /\ LET ok == Consistent(path)
     IN  IF ok /\ ~Complete(path)
           THEN /\ path' = Append(path, 0)
                /\ UNCHANGED <<pc, best, status>>
           ELSE /\ best' = IF ok THEN Max(best, ObjVal(path)) ELSE best
                /\ path' = Advance(path)
                /\ IF path' = <<>>
                     THEN /\ pc' = "solved"
                          /\ status' = IF best' >= 0 THEN "optimal" ELSE "infeasible"
                     ELSE UNCHANGED <<pc, status>>
  /\ UNCHANGED <<instVars, genVars, isgVars>>

IsgNext ==
  \/ IsgAddVars
  \/ IsgAddConstrs
  \/ IsgAddEdges
  \/ IsgSetObjective
  \/ Optimize
  \/ SolveStep

SpecIsg == IsgInit /\ [][IsgNext]_vars

(***************************************************************************)
(* Properties of gen_instance.                                             *)
(***************************************************************************)
\* The pairs joined by a chain of one or more edges of the list el.
RECURSIVE Closure(_)
Closure(R) ==
  LET step == R \cup {<<a, d>> : a \in {x[1] : x \in R}, d \in {x[2] : x \in R}}
      next == {x \in step : x \in R \/ \E m \in {y[2] : y \in R} :
                                          <<x[1], m>> \in R /\ <<m, x[2]>> \in R}
  IN  IF next = R THEN R ELSE Closure(next)

HasCycle(el) == \E x \in Closure(Range(el)) : x[1] = x[2]

OutDegree(el, v) == Cardinality({k \in 1..Len(el) : el[k][1] = v})

GenArgs ==
  {a \in ((0 - 1)..MaxPool) \X ((0 - 1)..MaxTasks) :
     (a[1] >= 1 /\ a[2] >= 1) => a[1] * a[2] <= MaxPool}

\* C4 (as claimed): gen_instance called with num_players <= 0 or num_tasks <= 0
\* is rejected before anything is built: it never builds time steps, tasks or
\* rewards, and never returns an instance, for such arguments.
C4_RejectsNonPositive ==
  (num_players <= 0 \/ num_tasks <= 0) => pc = "gen_call"

\* C7 (as claimed): for some arguments, shuffle order and draws, the edge list
\* returned by gen_instance contains a directed cycle.
C7_SomeCycle ==
  pc \in {"gen_call", "gen_built", "gen_loop", "gen_returned"} /\ \E a \in GenArgs : \E order \in Shuffles(AllTasks(GenTasks(a[1], a[2]))) :
    \E el \in GenEdgeLists(order) : HasCycle(el)

\* C7 (amended): gen_instance performs no cycle detection, yet the edge list is
\* acyclic at every point of the loop and on return: no chain of edges leads
\* from a task back to itself.
C7_Acyclic == ~HasCycle(edges)

C7_Witness ==
  /\ pc = "gen_returned"
  /\ Len(edges) >= 3
  /\ \E i, j \in 1..Len(edges) : edges[i][2] = edges[j][1]

\* C8: every edge added while the popped task t0 is processed is
\* (t0, pool[i]) with pool the list remaining after the pop, 0 <= i < r <= 5
\* and at least i+2 elements in pool; so the last element of the remaining
\* pool is never a target, no task has more than 5 outgoing edges, and no
\* self-loop or duplicate edge is produced.
C8_Step ==
  (pc = "gen_loop" /\ iters' = iters + 1) =>
    LET new == SubSeq(edges', Len(edges) + 1, Len(edges'))
    IN  /\ r' \in 1..5
        /\ SubSeq(edges', 1, Len(edges)) = edges
        /\ \A k \in 1..Len(new) :
             /\ \E i \in 0..(r' - 1) :
                  /\ Len(pop_list') >= i + 2
                  /\ new[k] = <<Head(pop_list), pop_list'[i + 1]>>
             /\ new[k][2] # pop_list'[Len(pop_list')]

C8_State ==
  /\ \A k \in 1..Len(edges) : edges[k][1] # edges[k][2]
  /\ \A k, l \in 1..Len(edges) : edges[k] = edges[l] => k = l
  /\ \A k \in 1..Len(edges) : OutDegree(edges, edges[k][1]) <= 5

C8_EdgeLoop == [][C8_Step]_vars /\ []C8_State

C8_Witness ==
  /\ pc = "gen_loop"
  /\ r = 1
  /\ Len(pop_list) >= 2
  /\ Len(edges) >= 1
  /\ edges[Len(edges)] = <<t0, pop_list[1]>>

\* C9: for num_players >= 0 and num_tasks >= 0 and every outcome of the draws
\* the edge loop terminates: each iteration removes exactly one task from the
\* pool and adds none, the loop runs exactly max(0, num_players*num_tasks - 1)
\* iterations and ends with at most one task left in the pool.
C9_Step ==
  (pc = "gen_loop" /\ iters' = iters + 1) =>
    /\ Len(pop_list') = Len(pop_list) - 1
    /\ Range(pop_list') \subseteq Range(pop_list)

C9_Final ==
  (pc = "gen_returned" /\ num_players >= 0 /\ num_tasks >= 0) =>
    /\ iters = Max(0, num_players * num_tasks - 1)
    /\ Len(pop_list) <= 1

\* A measure of the work left: every step of gen_instance lowers it.
C9_Measure ==
  CASE pc = "gen_call" -> Max(num_players, 0) * Max(num_tasks, 0) + 3
    [] pc = "gen_built" -> Len(AllTasks(tasks)) + 2
    [] pc = "gen_loop" -> Len(pop_list) + 1
    [] OTHER -> 0

C9_Terminates ==
  /\ [][C9_Step /\ C9_Measure' < C9_Measure]_vars
  /\ [](C9_Final /\ C9_Measure >= 0 /\ (pc = "gen_returned" \/ ENABLED GenNext))

C9_Witness ==
  /\ pc = "gen_returned"
  /\ num_players * num_tasks >= 4
  /\ iters = num_players * num_tasks - 1
  /\ Len(pop_list) = 1

(***************************************************************************)
(* Properties of model_isg and of the assignments that satisfy its         *)
(* constraints.                                                            *)
(***************************************************************************)
NumSlots == Len(time_steps)
NumPlayers == Len(tasks)
TaskSet == Range(AllTasks(tasks))

\* Every player owns exactly as many tasks as there are time steps.
SquareInstance == \A p \in 1..NumPlayers : Len(tasks[p]) = NumSlots

KnownEdges == \A k \in 1..Len(edges) : edges[k][1] \in TaskSet /\ edges[k][2] \in TaskSet

\* The enumeration stands at a complete assignment that satisfies every constraint.
Feasible ==
  /\ pc = "solve"
  /\ Complete(path)
  /\ \A k \in 1..Len(constrs) : Holds(constrs[k], path)

Sched(v, t) == path[scheduled_times[<<v, t>>]]
Active(v, t) == path[active_times[<<v, t>>]]

\* C1: with P >= 1 players owning T >= 1 tasks each and T time steps, in every
\* assignment that satisfies the constraints each player has exactly one task
\* scheduled at every time step and each task is scheduled at exactly one
\* time step.
C1_Permutation ==
  (Feasible /\ SquareInstance /\ NumPlayers >= 1 /\ NumSlots >= 1) =>
    /\ \A p \in 1..NumPlayers : \A t \in Range(time_steps) :
         Cardinality({j \in 1..Len(tasks[p]) : Sched(tasks[p][j], t) = 1}) = 1
    /\ \A v \in TaskSet :
         Cardinality({i \in 1..NumSlots : Sched(v, time_steps[i]) = 1}) = 1

C1_Witness ==
  /\ Feasible /\ SquareInstance
  /\ NumPlayers = 2 /\ NumSlots = 2
  /\ Sched(<<1, 1>>, 2) = 1
  /\ Sched(<<2, 1>>, 1) = 1

IsUniform22 ==
  /\ NumPlayers = 2 /\ NumSlots = 2 /\ SquareInstance
  /\ edges = <<>>
  /\ \A v \in TaskSet : rewards[v] = 1

\* C2 (as claimed): with 2 players, 2 tasks each, 2 time steps, no edge and
\* every reward 1, the maximum of the objective is exactly 8.
C2_Optimum8 ==
  (pc = "solved" /\ IsUniform22) => (status = "optimal" /\ best = 8)

\* C2 (amended): with 2 players, 2 tasks each, 2 time steps, no edge and every
\* reward 1, the maximum of the objective is exactly 6.
C2_Optimum6 ==
  /\ (pc = "solved" /\ IsUniform22) => (status = "optimal" /\ best = 6)
  /\ (Feasible /\ IsUniform22) => ObjVal(path) <= 6

C2_Witness == pc = "solved" /\ IsUniform22 /\ status = "optimal" /\ best = 6

\* C3 (as claimed): given an edge whose predecessor or successor is no task of
\* the instance, model_isg fails with UnknownTaskReference before any variable
\* is created and before any constraint is added.
C3_FailsFast ==
  ~KnownEdges =>
    /\ Len(varlist) = 0
    /\ Len(constrs) = 0
    /\ pc \notin {"isg_returned", "solve", "solved"}
    /\ pc = "isg_error" => err = "UnknownTaskReference"

\* C5: in every assignment that satisfies the constraints, a task active at the
\* time step of 0-based index i is scheduled at a time step of index j <= i.
C5_ActiveAfterScheduled ==
  Feasible =>
    \A v \in TaskSet : \A i \in 1..NumSlots :
      Active(v, time_steps[i]) = 1 =>
        \E j \in 1..i : Sched(v, time_steps[j]) = 1

C5_Witness ==
  /\ Feasible
  /\ NumSlots = 2
  /\ \E v \in TaskSet :
       /\ Sched(v, 1) = 1 /\ Active(v, 2) = 1
       /\ \E w \in TaskSet : Sched(w, 2) = 1 /\ Active(w, 1) = 0 /\ Active(w, 2) = 1

\* C6: for P players with T tasks each and T time steps, model_isg creates
\* exactly 2*P*T^2 variables: one scheduled and one active variable for every
\* (task, time step) pair, none missing and none created twice.
C6_VarCount ==
  (pc \notin {"isg_call"} /\ SquareInstance) =>
    /\ Len(varlist) = 2 * NumPlayers * NumSlots * NumSlots
    /\ DOMAIN scheduled_times = TaskSet \X Range(time_steps)
    /\ DOMAIN active_times = TaskSet \X Range(time_steps)
    /\ \A k \in 1..Len(varlist) :
         /\ varlist[k][1] \in {"s", "a"}
         /\ (IF varlist[k][1] = "s" THEN scheduled_times ELSE active_times)
              [<<varlist[k][2], varlist[k][3]>>] = k

C6_Witness ==
  /\ pc = "isg_vars"
  /\ SquareInstance /\ NumPlayers = 2 /\ NumSlots = 2
  /\ Len(varlist) = 16

\* C10: when every player owns exactly T tasks for T >= 1 time steps, the
\* constraints of model_isg have a satisfying assignment whatever the edges
\* over those tasks (cycles and self-loops included); when some player owns a
\* number of tasks different from the number of time steps, no assignment
\* satisfies them.
C10_Feasibility ==
  /\ (SquareInstance /\ NumSlots >= 1 /\ KnownEdges) =>
       /\ pc # "isg_error"
       /\ pc = "solved" => status = "optimal"
  /\ ~SquareInstance =>
       /\ ~Feasible
       /\ pc = "solved" => status = "infeasible"

C10_Witness ==
  /\ pc = "solved" /\ status = "optimal"
  /\ SquareInstance /\ NumPlayers = 2 /\ NumSlots = 2
  /\ Len(edges) = 2 /\ KnownEdges /\ HasCycle(edges)

C10_WitnessInfeasible ==
  /\ pc = "solved" /\ status = "infeasible"
  /\ ~SquareInstance /\ NumSlots >= 1 /\ NumPlayers >= 1

====
